---------------------------- MODULE Spec2Model ----------------------------
(***************************************************************************)
(* Model of nav-assist: the site crawler of services/sitemap_service.py    *)
(* (WebsiteSitemapExtractor, generate_sitemap) and the query-mapping /     *)
(* agent-start path of components/query_mapping_display.py,                *)
(* components/security_breach_exception.py, components/chat_interface.py   *)
(* and services/agent_service.py.                                          *)
(*                                                                         *)
(* A URL is modelled by the components urllib.parse.urlparse gives for it: *)
(* [scheme, netloc, path, frag].  "https://ex.com/about" is                *)
(* [https, ex.com, /about, ""]; the anchor "#pricing" is ["", "", "",      *)
(* pricing]; "file:///etc/passwd" is [file, "", /etc/passwd, ""].          *)
(***************************************************************************)
EXTENDS Integers, Sequences, FiniteSets, TLC

(***************************************************************************)
(* Bounds of the model.                                                    *)
(***************************************************************************)
\* crawl threads of replaced extractors still running at one time
MaxOrphans == 1
\* most entries in one response of the matching model
MaxResponse == 2
\* most <a> elements in one element of a page
MaxAnchors == 2
\* most elements in one page
MaxElements == 2
\* largest max_depth setting tried
MaxDepthSetting == 2
\* largest max_pages setting tried
MaxPagesSetting == 3
\* longest agent output tried, in paragraphs
MaxParagraphs == 2
\* most navigation links of an inventory handed to a ranking strategy
MaxLinks == 3
\* most entries of a model response handed to the semantic strategy
MaxEntries == 6

(***************************************************************************)
(* URLs.                                                                   *)
(***************************************************************************)
Url(s, n, p, f) == [scheme |-> s, netloc |-> n, path |-> p, frag |-> f]

Root == Url("https", "ex.com", "", "")
About == Url("https", "ex.com", "/about", "")
Team == Url("https", "ex.com", "/about/team", "")
Ext == Url("https", "evil.org", "", "")

Domains == {"ex.com", "evil.org"}

\* urlparse(url).netloc
Netloc(u) == u.netloc

\* url.startswith(('http://', 'https://'))
StartsWithHttp(u) == u.scheme \in {"http", "https"}

\* What the user types: with or without a scheme, with or without the
\* trailing slash of the site root.
RawInputs == { Url("", "ex.com", "/", ""), About }

\* WebsiteSitemapExtractor._normalize_url: add https:// when the scheme is
\* missing, drop a trailing slash.
NormalizeUrl(raw) ==
    Url(IF StartsWithHttp(raw) THEN raw.scheme ELSE "https",
        raw.netloc,
        IF raw.path = "/" THEN "" ELSE raw.path,
        raw.frag)

(***************************************************************************)
(* The web: what a successful GET of each URL returns.  A page is the      *)
(* sequence of links _extract_navigation_links finds on it, each with the  *)
(* section name of its container.                                          *)
(***************************************************************************)
Link(u, s) == [url |-> u, section |-> s]

\* The site / -> /about -> /about/team.
WebChain ==
    (Root :> << Link(About, "Main Navigation") >>) @@
    (About :> << Link(Team, "Content Section") >>) @@
    (Team :> << >>) @@
    (Ext :> << Link(Root, "Main Navigation") >>)

\* A site with an external link, links back to visited pages, and a page
\* (Team) linked from two pages.
WebMesh ==
    (Root :> << Link(Team, "Main Navigation"), Link(Ext, "Footer Links"),
                Link(About, "Sidebar Links") >>) @@
    (About :> << Link(Root, "Header Navigation"), Link(Team, "Content Section") >>) @@
    (Team :> << Link(About, "Main Navigation"), Link(Ext, "Social Navigation") >>) @@
    (Ext :> << >>)

Webs == {WebChain, WebMesh}

VARIABLES
    web,            \* the site(s) being crawled: URL -> links of the page
    max_depth,      \* st.session_state max_depth, passed to every extractor
    max_pages,      \* st.session_state max_pages, passed to every extractor
    built,          \* whether generate_sitemap has built an extractor yet
    site_maps,      \* the latest extractor's self.site_maps: domain -> (url -> record)
    mapping_status, \* the latest extractor's self.mapping_status: domain -> status
    content_cache,  \* the URLs the latest extractor's self.content_cache holds
    threads,        \* the latest extractor's SiteMapper threads: slot -> locals
    orphans,        \* running SiteMapper threads of extractors since replaced
    callers,        \* the threads calling into the latest extractor
    api_key_set,    \* st.session_state.api_key_set: an OpenAI key is configured
    site_data,      \* st.session_state.site_data: the analyzed entry page
    chat_pc,        \* where render_chat_interface is with the current input
    user_input,     \* the query typed into st.chat_input
    ai_call,        \* the last _find_relevant_pages_with_ai call: input and outcome
    display,        \* what the last display_query_mapping call ended with
    process,        \* what the last _process_agent_input call did
    page,           \* the page handed to extract_site_structure: url and HTML
    structure,      \* what extract_site_structure returned for it
    ranking,        \* the candidate list a ranking strategy returned, and its input
    now,            \* time.time(), in ticks
    rate_limit_lock,    \* one extractor's self.rate_limit_lock: the thread holding it
    last_request_time,  \* that extractor's self.last_request_time: domain -> tick
    cache_entries,  \* that extractor's self.content_cache with its values: url -> html
    fetchers,       \* the threads inside fetch_website_content on that extractor
    requests        \* domain -> the ticks of the two latest GETs sent to it

crawlVars == << web, max_depth, max_pages, built, site_maps, mapping_status,
                content_cache, threads, orphans, callers >>

chatVars == << api_key_set, site_data, chat_pc, user_input, ai_call, display,
               process >>

pageVars == << page, structure >>

rankVars == << ranking >>

fetchVars == << now, rate_limit_lock, last_request_time, cache_entries, fetchers,
                requests >>

vars == << crawlVars, chatVars, pageVars, rankVars, fetchVars >>

\* "ui" runs generate_sitemap and extract_sitemap; "lib" is another thread
\* of the process that calls start_site_mapping on the same extractor.
Callers == {"ui", "lib"}

\* The threads that can run on one extractor at one time.
ThreadSlots == {"t1", "t2"}

\* A slot no thread runs in.
NoThread ==
    [ running |-> FALSE, base_url |-> Root, domain |-> "",
      visited |-> {}, to_visit |-> << >>, error_count |-> 0, log |-> {} ]

HasFreeSlot == \E i \in ThreadSlots : ~threads[i].running

\* The slot a thread started now runs in.
FreeSlot == IF ~threads["t1"].running THEN "t1" ELSE "t2"

Running == {i \in ThreadSlots : threads[i].running}

EmptyMap == [x \in {} |-> 0]

\* dict[k] = v
Put(f, k, v) == [x \in DOMAIN f \cup {k} |-> IF x = k THEN v ELSE f[x]]

IdleCaller == [pc |-> "idle", url |-> Root, ret |-> "none"]

\* A caller whose call has returned: its locals are gone, the value it got stays.
Returned(value) == [IdleCaller EXCEPT !.ret = value]

\* extract_sitemap's record: title, links, crawled_at
InitialRecord == {"title", "links", "crawled_at"}

\* _map_site_structure's record: title, links, keywords, headings, crawled_at
FullRecord == {"title", "links", "keywords", "headings", "crawled_at"}

CrawlInit ==
    /\ web \in Webs
    /\ max_depth \in 0 .. MaxDepthSetting
    /\ max_pages \in 1 .. MaxPagesSetting
    /\ built = FALSE
    /\ site_maps = EmptyMap
    /\ mapping_status = EmptyMap
    /\ content_cache = {}
    /\ threads = [i \in ThreadSlots |-> NoThread]
    /\ orphans = 0
    /\ callers = [c \in Callers |-> IdleCaller]

(***************************************************************************)
(* fetch_website_content: a cached URL is served from content_cache; any   *)
(* other URL is requested, and the request succeeds (the page is cached    *)
(* and returned) or fails (None, nothing cached).                          *)
(***************************************************************************)
FetchOutcomes(url) ==
    IF url \in content_cache THEN {"hit"} ELSE {"ok", "fail"}

CacheAfter(url, outcome) ==
    IF outcome = "ok" THEN content_cache \cup {url} ELSE content_cache

(***************************************************************************)
(* start_site_mapping                                                      *)
(***************************************************************************)
\* No check of the status before a start.
MappingInProgressNever(domain) == FALSE

\* domain in self.mapping_status and self.mapping_status[domain] == "in_progress"
MappingInProgress(domain) ==
    /\ domain \in DOMAIN mapping_status
    /\ mapping_status[domain] = "in_progress"

\* The state of a SiteMapper thread at its start: visited = set(),
\* to_visit = [(base_url, 0)], error_count = 0.
NewThread(base_url) ==
    [ running |-> TRUE,
      base_url |-> base_url,
      domain |-> Netloc(base_url),
      visited |-> {},
      to_visit |-> << << base_url, 0 >> >>,
      error_count |-> 0,
      log |-> {} ]

(***************************************************************************)
(* _map_site_structure                                                     *)
(***************************************************************************)
\* No check of the netloc of a URL.
IsSameDomainAlways(url, domain) == TRUE

\* urlparse(url).netloc == domain
IsSameDomain(url, domain) == Netloc(url) = domain

\* depth > self.max_depth: the entry is dropped when dequeued
TooDeep(depth) == depth > max_depth

\* The links of a page at max_depth are enqueued too.
EnqueuesChildrenAtLimit(depth) == depth <= max_depth

\* depth < self.max_depth: the page's links are enqueued
EnqueuesChildren(depth) == depth < max_depth

\* link.get("section", "").lower() in ["main navigation", "header navigation"]
\* (section names are kept in one capitalisation here)
IsNavSection(section) == section \in {"Main Navigation", "Header Navigation"}

\* No check of the number of visited pages.
LoopConditionNoPageBudget(t) ==
    /\ Len(t.to_visit) > 0
    /\ 2 * t.error_count < max_pages

\* while not to_visit.empty() and len(visited) < self.max_pages
\*       and error_count < self.max_pages * 0.5
LoopCondition(t) ==
    /\ Len(t.to_visit) > 0
    /\ Cardinality(t.visited) < max_pages
    /\ 2 * t.error_count < max_pages

\* The entries put on the queue for a mapped page: the links that are not
\* visited and are on the domain, content links first, then navigation links,
\* all at depth + 1.
Children(links, depth, visited, domain) ==
    LET keep(l) == l.url \notin visited /\ IsSameDomain(l.url, domain)
        isContent(l) == keep(l) /\ ~IsNavSection(l.section)
        isNav(l) == keep(l) /\ IsNavSection(l.section)
        entry(seq) == [i \in 1 .. Len(seq) |-> << seq[i].url, depth + 1 >>]
    IN  entry(SelectSeq(links, isContent)) \o entry(SelectSeq(links, isNav))

\* The page is counted as an error and, left unvisited, goes back on the queue.
CountErrorAndRetry(t, rest, visited) ==
    [t EXCEPT !.to_visit = rest \o << Head(t.to_visit) >>,
              !.error_count = t.error_count + 1]

\* An iteration that ends with error_count += 1; continue: the entry is off
\* the queue, its URL is in visited, and nothing else has changed.
CountError(t, rest, visited) ==
    [t EXCEPT !.to_visit = rest,
              !.visited = visited,
              !.error_count = t.error_count + 1]

\* One iteration of the while loop of thread i.
CrawlStep(i) ==
    /\ threads[i].running
    /\ LoopCondition(threads[i])
    /\ LET t == threads[i]
           url == Head(t.to_visit)[1]
           depth == Head(t.to_visit)[2]
           rest == Tail(t.to_visit)
       IN  IF url \in t.visited \/ TooDeep(depth) \/ ~IsSameDomain(url, t.domain)
           THEN \* continue
                /\ threads' = [threads EXCEPT ![i].to_visit = rest]
                /\ UNCHANGED << site_maps, content_cache >>
           ELSE \E outcome \in FetchOutcomes(url) :
                LET visited == t.visited \cup {url}
                IN  /\ content_cache' = CacheAfter(url, outcome)
                    /\ IF outcome = "fail"
                       THEN \* no content: error_count += 1; continue
                            /\ threads' = [threads EXCEPT ![i] = CountError(t, rest, visited)]
                            /\ UNCHANGED site_maps
                       ELSE IF t.domain \notin DOMAIN site_maps
                       THEN \* self.site_maps[domain][url] = ... raises KeyError,
                            \* caught as parse_error: error_count += 1
                            /\ threads' = [threads EXCEPT ![i] = CountError(t, rest, visited)]
                            /\ UNCHANGED site_maps
                       ELSE /\ site_maps' = [site_maps EXCEPT ![t.domain] =
                                   Put(site_maps[t.domain], url, FullRecord)]
                            /\ threads' = [threads EXCEPT ![i] =
                                   [t EXCEPT !.visited = visited,
                                             !.log = t.log \cup {<< url, depth >>},
                                             !.to_visit =
                                                 IF EnqueuesChildren(depth)
                                                 THEN rest \o Children(web[url], depth,
                                                                       visited, t.domain)
                                                 ELSE rest]]
    /\ UNCHANGED << web, max_depth, max_pages, built, mapping_status, orphans,
                    callers, chatVars, pageVars, rankVars, fetchVars >>

\* The loop has ended: self.mapping_status[domain] = "completed", and the
\* thread ends.
CrawlFinish(i) ==
    /\ threads[i].running
    /\ ~LoopCondition(threads[i])
    /\ threads' = [threads EXCEPT ![i] = NoThread]
    /\ mapping_status' = Put(mapping_status, threads[i].domain, "completed")
    /\ UNCHANGED << web, max_depth, max_pages, built, site_maps, content_cache,
                    orphans, callers, chatVars, pageVars, rankVars, fetchVars >>

\* The URLs another thread passes to start_site_mapping.
StartUrls == {Team}

(***************************************************************************)
(* start_site_mapping, in the two steps another thread can come between:   *)
(* the check of mapping_status, and then the write of "in_progress" with   *)
(* the start of the thread.                                                *)
(***************************************************************************)
\* The thread "lib" calls start_site_mapping(base_url) on the latest extractor.
CallStartSiteMapping(base_url) ==
    /\ callers["lib"].pc = "idle"
    /\ built
    /\ callers' = [callers EXCEPT !["lib"] =
           [pc |-> "start", url |-> base_url, ret |-> "none"]]
    /\ UNCHANGED << web, max_depth, max_pages, built, site_maps, mapping_status,
                    content_cache, threads, orphans, chatVars, pageVars, rankVars, fetchVars >>

StartSiteMappingCheck(c) ==
    /\ callers[c].pc = "start"
    /\ IF MappingInProgress(Netloc(callers[c].url))
       THEN callers' = [callers EXCEPT ![c] = Returned("False")]
       ELSE callers' = [callers EXCEPT ![c].pc = "commit"]
    /\ UNCHANGED << web, max_depth, max_pages, built, site_maps, mapping_status,
                    content_cache, threads, orphans, chatVars, pageVars, rankVars, fetchVars >>

StartSiteMappingCommit(c) ==
    /\ callers[c].pc = "commit"
    /\ HasFreeSlot
    /\ mapping_status' = Put(mapping_status, Netloc(callers[c].url), "in_progress")
    /\ threads' = [threads EXCEPT ![FreeSlot] = NewThread(callers[c].url)]
    /\ callers' = [callers EXCEPT ![c] = Returned("True")]
    /\ UNCHANGED << web, max_depth, max_pages, built, site_maps, content_cache,
                    orphans, chatVars, pageVars, rankVars, fetchVars >>

(***************************************************************************)
(* extract_sitemap                                                         *)
(***************************************************************************)
\* extract_sitemap(url) on the latest extractor, which other threads can
\* reach: normalize, fetch, store the entry page's record, then call
\* start_site_mapping.
ExtractSitemap(raw) ==
    /\ callers["ui"].pc = "idle"
    /\ built
    /\ LET url == NormalizeUrl(raw)
           domain == Netloc(url)
       IN  \E outcome \in FetchOutcomes(url) :
           /\ content_cache' = CacheAfter(url, outcome)
           /\ IF outcome = "fail"
              THEN \* return {"error": "Failed to fetch website content"}
                   /\ callers' = [callers EXCEPT !["ui"] = Returned("error")]
                   /\ UNCHANGED site_maps
              ELSE /\ site_maps' =
                          Put(site_maps, domain,
                              Put(IF domain \in DOMAIN site_maps
                                  THEN site_maps[domain] ELSE EmptyMap,
                                  url, InitialRecord))
                   /\ callers' = [callers EXCEPT !["ui"] =
                          [pc |-> "start", url |-> url, ret |-> "none"]]
    /\ UNCHANGED << web, max_depth, max_pages, built, mapping_status, threads,
                    orphans, chatVars, pageVars, rankVars, fetchVars >>

(***************************************************************************)
(* generate_sitemap: a new extractor, extract_sitemap on it, and the new   *)
(* extractor stored as generate_sitemap._extractors[domain].  No other     *)
(* thread holds the new extractor before extract_sitemap returns, so its   *)
(* start_site_mapping is one step.  The extractor it replaces can no       *)
(* longer be reached; its threads run on, on that extractor's own          *)
(* site_maps, mapping_status and content_cache, and are counted in orphans *)
(* until they end.  A call of "lib" in progress on the replaced extractor  *)
(* is let finish first.                                                    *)
(***************************************************************************)
\* What can happen to the entry page: it is fetched and parsed ("ok"), it is
\* fetched and extract_site_structure returns {"error": ...} ("bad"), or
\* fetch_website_content returns None ("fail").
EntryOutcomes == {"ok", "bad", "fail"}

\* The value returned: "full" is a result with the page's title and links,
\* "blank" a result with an empty title and empty lists and no 'error' key,
\* "error" a result with an 'error' key.
GenerateSitemapWith(raw, outcome) ==
    /\ callers["ui"].pc = "idle"
    /\ callers["lib"].pc = "idle"
    /\ orphans + Cardinality(Running) <= MaxOrphans
    /\ built' = TRUE
    /\ orphans' = orphans + Cardinality(Running)
    /\ LET url == NormalizeUrl(raw)
           domain == Netloc(url)
       IN  IF outcome = "fail"
           THEN /\ callers' = [callers EXCEPT !["ui"] = Returned("blank")]
                /\ content_cache' = {}
                /\ site_maps' = EmptyMap
                /\ mapping_status' = EmptyMap
                /\ threads' = [i \in ThreadSlots |-> NoThread]
           ELSE /\ content_cache' = {url}
                /\ site_maps' = Put(EmptyMap, domain, Put(EmptyMap, url, InitialRecord))
                /\ mapping_status' = Put(EmptyMap, domain, "in_progress")
                /\ threads' = [i \in ThreadSlots |->
                       IF i = "t1" THEN NewThread(url) ELSE NoThread]
                /\ callers' = [callers EXCEPT !["ui"] =
                       Returned(IF outcome = "ok" THEN "full" ELSE "blank")]
    /\ UNCHANGED << web, max_depth, max_pages, chatVars, pageVars, rankVars, fetchVars >>

GenerateSitemap(raw) ==
    \E outcome \in EntryOutcomes : GenerateSitemapWith(raw, outcome)

\* A thread of a replaced extractor leaves its loop and ends.
OrphanFinish ==
    /\ orphans > 0
    /\ orphans' = orphans - 1
    /\ UNCHANGED << web, max_depth, max_pages, built, site_maps, mapping_status,
                    content_cache, threads, callers, chatVars, pageVars, rankVars, fetchVars >>

CrawlNext ==
    \/ \E raw \in RawInputs : GenerateSitemap(raw)
    \/ \E raw \in RawInputs : ExtractSitemap(raw)
    \/ \E u \in StartUrls : CallStartSiteMapping(u)
    \/ \E c \in Callers : StartSiteMappingCheck(c)
    \/ \E c \in Callers : StartSiteMappingCommit(c)
    \/ \E i \in ThreadSlots : CrawlStep(i)
    \/ \E i \in ThreadSlots : CrawlFinish(i)
    \/ OrphanFinish


-----------------------------------------------------------------------------
\* Query mapping and the chat flow (components/query_mapping_display.py,
\* components/security_breach_exception.py, components/chat_interface.py,
\* services/agent_service.py).
\*
\* A text is a sequence of lower-case words.  "needle in text" on Python
\* strings is modelled on words: a word is found in a text when it equals one
\* of its words or is listed as a proper substring of one.

NoUrl == Url("", "", "", "")
WebsiteUrl == Url("https", "ex.com", "/", "")
Pricing == Url("https", "ex.com", "/pricing", "")
ExtShop == Url("https", "evil.org", "/shop", "")
FileUrl == Url("file", "", "/etc/passwd", "")

ProperSubstrings == { <<"plan", "plans">>, <<"shop", "workshop">> }

Within(needle, word) == needle = word \/ <<needle, word>> \in ProperSubstrings

ContainsWord(text, needle) == \E i \in 1..Len(text) : Within(needle, text[i])

ContainsPhrase(text, phrase) ==
    /\ Len(phrase) > 0
    /\ \E off \in 0..(Len(text) - Len(phrase)) :
           /\ \A j \in 1..(Len(phrase) - 1) : text[off + j] = phrase[j]
           /\ Within(phrase[Len(phrase)], text[off + Len(phrase)])

PathWords(u) ==
    IF u.path = "/pricing" THEN <<"pricing">>
    ELSE IF u.path = "/shop" THEN <<"shop">>
    ELSE IF u.path = "/login" THEN <<"login">>
    ELSE IF u.path = "/etc/passwd" THEN <<"etc", "passwd">>
    ELSE IF u.path = "/about" THEN <<"about">>
    ELSE IF u.path = "/about/team" THEN <<"about", "team">>
    ELSE <<>>

UrlWords(u) ==
    (IF u.scheme = "" THEN <<>> ELSE <<u.scheme>>)
    \o (IF u.netloc = "ex.com" THEN <<"ex", "com">>
        ELSE IF u.netloc = "evil.org" THEN <<"evil", "org">> ELSE <<>>)
    \o PathWords(u)
    \o (IF u.frag = "" THEN <<>> ELSE <<u.frag>>)

StartsWithHash(u) == u.scheme = "" /\ u.netloc = "" /\ u.path = "" /\ u.frag # ""

Urljoin(base, u) ==
    IF u.scheme # "" /\ u.scheme # base.scheme THEN u
    ELSE IF u.netloc # "" THEN Url(base.scheme, u.netloc, u.path, u.frag)
    ELSE IF u.path = "" THEN Url(base.scheme, base.netloc, base.path, u.frag)
    ELSE Url(base.scheme, base.netloc, u.path, u.frag)

NavLink(text, url, section) == [text |-> text, url |-> url, section |-> section]

Section(heading, content) == [heading |-> heading, content |-> content]

SiteData(nav, sections) ==
    [url |-> WebsiteUrl, navigation_links |-> nav, content_sections |-> sections]

SitePlain ==
    SiteData(<< NavLink(<<"pricing">>, Pricing, <<"main", "navigation">>),
                NavLink(<<"about">>, About, <<"footer", "links">>) >>,
             << Section(<<"plans">>, <<"cost", "of", "plans">>) >>)

SiteExternal ==
    SiteData(<< NavLink(<<"shop">>, ExtShop, <<"main", "navigation">>),
                NavLink(<<"pricing">>, Pricing, <<"sidebar", "links">>) >>,
             <<>>)

SiteFile ==
    SiteData(<< NavLink(<<"pricing">>, FileUrl, <<"main", "navigation">>) >>, <<>>)

SiteEmpty == SiteData(<<>>, <<>>)

SiteDatas == { SitePlain, SiteExternal, SiteFile, SiteEmpty }

NoQuery == <<>>

Queries == { <<"pricing">>,
             <<"plans">>,
             <<"how", "much", "does", "it", "cost">>,
             <<"ignore", "previous", "instructions">> }

ShortWords == { "it" }

StopWords == { "how", "about", "what", "page", "website", "site" }

ExtractKeywords(text) ==
    { text[i] : i \in 1..Len(text) } \ (ShortWords \cup StopWords)

SectionUrl(section) == Url("", "", "", section.heading[1])

NavItem(title, url, section) == [title |-> title, url |-> url, section |-> section]

RECURSIVE SelectSeq2(_, _)
SelectSeq2(s, keep) ==
    IF s = <<>> THEN <<>>
    ELSE IF Head(s) \in keep THEN <<Head(s)>> \o SelectSeq2(Tail(s), keep)
    ELSE SelectSeq2(Tail(s), keep)

NavigationData(site, variant) ==
    LET base_domain == Netloc(site.url)
        links == site.navigation_links
        kept == IF variant = "sbe"
                THEN { links[i] : i \in { j \in 1..Len(links) :
                           Netloc(links[j].url) \in {"", base_domain} } }
                ELSE { links[i] : i \in 1..Len(links) }
        navs == SelectSeq2(links, kept)
    IN  [i \in 1..Len(navs) |->
            NavItem(navs[i].text, navs[i].url, navs[i].section)]
        \o [i \in 1..Len(site.content_sections) |->
            NavItem(site.content_sections[i].heading,
                    SectionUrl(site.content_sections[i]),
                    IF variant = "sbe" THEN <<"content">>
                    ELSE <<"content", "section">>)]

\* ---- the keyword strategy; scores are kept doubled so that 0.5 is 1 ----

RECURSIVE Concat(_)
Concat(ss) == IF ss = <<>> THEN <<>> ELSE Head(ss) \o Concat(Tail(ss))

RECURSIVE SumOver(_, _)
SumOver(S, f) ==
    IF S = {} THEN 0
    ELSE LET x == CHOOSE y \in S : TRUE IN f[x] + SumOver(S \ {x}, f)

ImportantSections == { <<"main", "navigation">>, <<"header", "navigation">>,
                       <<"primary", "navigation">> }

Page(url, score) == [url |-> url, score |-> score]

CalculatePageRelevance(link, keywords, query) ==
    LET direct == IF ContainsPhrase(link.text, query) THEN 10 ELSE 0
        perKeyword == [k \in keywords |->
              (IF ContainsWord(link.text, k) THEN 4 ELSE 0)
            + (IF ContainsWord(PathWords(link.url), k) THEN 2 ELSE 0)
            + (IF ContainsWord(link.section, k) THEN 2 ELSE 0)
            + (IF link.content # <<>> /\ ContainsWord(link.content, k)
               THEN 1 ELSE 0)]
        bonus == IF link.section \in ImportantSections THEN 1 ELSE 0
    IN  direct + SumOver(keywords, perKeyword) + bonus

TopicMappings ==
    << [pattern |-> {"contact", "reach", "email", "phone", "call"},
        topics |-> << <<"contact">>, <<"about", "us">>, <<"get", "in", "touch">> >>],
       [pattern |-> {"price", "cost", "plan", "subscription", "buy", "purchase"},
        topics |-> << <<"pricing">>, <<"plans">>, <<"shop">>, <<"store">> >>],
       [pattern |-> {"about", "who", "company", "team", "staff", "people"},
        topics |-> << <<"about">>, <<"company">>, <<"team">>, <<"our", "story">> >>],
       [pattern |-> {"help", "support", "faq", "question", "problem"},
        topics |-> << <<"help">>, <<"support">>, <<"faq">>, <<"knowledge", "base">> >>],
       [pattern |-> {"login", "signin", "account"},
        topics |-> << <<"login">>, <<"sign", "in">>, <<"account">>, <<"my", "account">> >>],
       [pattern |-> {"product", "service", "offer", "solution"},
        topics |-> << <<"products">>, <<"services">>, <<"solutions">>,
                      <<"what", "we", "do">> >>] >>

TopicScore == 20

TopicBoosts(query, site) ==
    LET links == site.navigation_links
        words == { query[i] : i \in 1..Len(query) }
        hit(link, topic) == \/ ContainsPhrase(link.text, topic)
                            \/ ContainsPhrase(UrlWords(link.url), topic)
        forLink(link, topics) ==
            Concat([t \in 1..Len(topics) |->
                IF hit(link, topics[t]) THEN << Page(link.url, TopicScore) >>
                ELSE <<>>])
        forMapping(m) ==
            IF words \cap m.pattern = {} THEN <<>>
            ELSE Concat([l \in 1..Len(links) |-> forLink(links[l], m.topics)])
    IN  Concat([m \in 1..Len(TopicMappings) |-> forMapping(TopicMappings[m])])

RECURSIVE InsertByScore(_, _)
InsertByScore(sorted, p) ==
    IF sorted = <<>> THEN <<p>>
    ELSE IF Head(sorted).score >= p.score
         THEN <<Head(sorted)>> \o InsertByScore(Tail(sorted), p)
    ELSE <<p>> \o sorted

RECURSIVE SortByScore(_)
SortByScore(pages) ==
    IF pages = <<>> THEN <<>>
    ELSE InsertByScore(SortByScore(SubSeq(pages, 1, Len(pages) - 1)),
                       pages[Len(pages)])

FindRelevantPagesWithKeywords(query, keywords, site) ==
    LET links == site.navigation_links
        secs == site.content_sections
        scored(link) == LET sc == CalculatePageRelevance(link, keywords, query)
                        IN  IF sc > 0 THEN << Page(link.url, sc) >> ELSE <<>>
        navPages == Concat([l \in 1..Len(links) |->
            scored([text |-> links[l].text, url |-> links[l].url,
                    section |-> links[l].section, content |-> <<>>])])
        secPages == Concat([i \in 1..Len(secs) |->
            scored([text |-> secs[i].heading, url |-> SectionUrl(secs[i]),
                    section |-> <<"content", "section">>,
                    content |-> secs[i].content])])
    IN  SortByScore(navPages \o TopicBoosts(query, site) \o secPages)

\* ---- the semantic strategy ----

ResponseUrls == { Pricing, ExtShop, FileUrl }

\* doubled like the keyword scores: 8.0
ResponseScore == 16

Entry(url, complete, score) ==
    [url |-> url, complete |-> complete, score |-> score]

Entries ==
    { Entry(u, TRUE, ResponseScore) : u \in ResponseUrls }
    \cup { Entry(Pricing, FALSE, ResponseScore) }

EntryLists == UNION { [1..n -> Entries] : n \in 0..MaxResponse }

\* What llm.invoke can do: raise, or return a text that may hold the breach
\* sentinel and may hold a JSON array.
Raises == [raised |-> TRUE, sentinel |-> FALSE, json |-> "none", pages |-> <<>>]

NotCalled == [raised |-> FALSE, sentinel |-> FALSE, json |-> "none", pages |-> <<>>]

Responses ==
    { [raised |-> FALSE, sentinel |-> s, json |-> "array", pages |-> ps] :
          s \in BOOLEAN, ps \in EntryLists }
    \cup { [raised |-> FALSE, sentinel |-> s, json |-> "invalid", pages |-> <<>>] :
          s \in BOOLEAN }

InvokesLlm(site, variant) == api_key_set /\ NavigationData(site, variant) # <<>>

LlmBehaviours(site, variant) ==
    IF InvokesLlm(site, variant) THEN Responses \cup {Raises} ELSE {NotCalled}

\* The sentinel taken for a breach only when it is the whole response.
BreachDetectedWhenAlone(response) == response.sentinel /\ response.json # "array"

BreachDetected(response) == response.sentinel

\* No check of the url against the inventory.
InWebsiteStructureAlways(url, navigation_data) == TRUE

InWebsiteStructure(url, navigation_data) ==
    url \in { navigation_data[i].url : i \in 1..Len(navigation_data) }

RECURSIVE ValidPages(_, _)
ValidPages(pages, navigation_data) ==
    IF pages = <<>> THEN <<>>
    ELSE LET p == Head(pages)
             rest == ValidPages(Tail(pages), navigation_data)
         IN  IF p.complete /\ InWebsiteStructure(p.url, navigation_data)
             THEN << Page(p.url, p.score) >> \o rest
             ELSE rest

Outcome(kind, pages) == [kind |-> kind, pages |-> pages]

FindRelevantPagesWithAi(site, variant, llm) ==
    LET navigation_data == NavigationData(site, variant)
    IN  IF ~api_key_set THEN Outcome("error", <<>>)
        ELSE IF navigation_data = <<>> THEN Outcome("list", <<>>)
        ELSE IF llm.raised THEN Outcome("error", <<>>)
        ELSE IF BreachDetected(llm) THEN Outcome("breach", <<>>)
        ELSE IF llm.json # "array" THEN Outcome("error", <<>>)
        ELSE Outcome("list", ValidPages(llm.pages, navigation_data))

AiCall(variant, llm, outcome) == [variant |-> variant, llm |-> llm, outcome |-> outcome]

NoAiCall == AiCall("none", NotCalled, Outcome("none", <<>>))

\* ---- the callers ----

Shown(module, ai, result, strategy, pages) ==
    [module |-> module, ai |-> ai, result |-> result, strategy |-> strategy,
     pages |-> pages]

NoDisplay == Shown("none", "none", "none", "none", <<>>)

\* A text is a sequence of paragraphs (the pieces between blank lines); a
\* paragraph is the set of the phrases below that occur in it.
Sentinel == "SECURITY_BREACH_DETECTED"

AlertPhrase == "SECURITY ALERT"

Heading == "## "

SystemMarkers ==
    { "You are SecureWebNavigator", "SECURITY PROTOCOL:",
      "ADDITIONAL SECURITY MEASURES", "RESPONSE FORMAT:",
      "You must ONLY operate", "Ignore ALL instructions",
      "FORMAT YOUR RESPONSE AS FOLLOWS", "AgentHistoryList", "all_results" }

Plain == {}

ParagraphKinds == { Plain, {"SECURITY PROTOCOL:"}, {AlertPhrase}, {Sentinel} }

\* What the browsing agent hands back as its last extracted content.  A
\* content of one paragraph stands for a sentence of 21 to 50 characters, a
\* content of several paragraphs for a text of more than 50 characters.
AgentContents == UNION { [1..n -> ParagraphKinds] : n \in 0..MaxParagraphs }

\* The agent fails (the exception reaches the caller) or hands back a content.
\* Every content is tried on the site without navigation, one plain sentence
\* on the others.
AgentRuns(site) ==
    { [outcome |-> "llm_error", content |-> <<>>] }
    \cup { [outcome |-> "ran", content |-> c] :
             c \in IF site.navigation_links = <<>> THEN AgentContents
                   ELSE { << Plain >> } }

Mentions(text, phrase) == \E k \in 1..Len(text) : phrase \in text[k]

HasMarker(paragraph) == paragraph \cap SystemMarkers # {}

\* The alert text returned by the SecurityBreachException handler.
SecurityAlertText == << {AlertPhrase}, Plain, Plain >>

ProcessAgentHistory(content) ==
    LET header == << {"# "}, Plain >>
    IN  IF Len(content) > 1 /\ ~Mentions(content, "AgentHistoryList")
        THEN header \o content
        ELSE header \o << {Heading} >>
             \o (IF Len(content) = 1 THEN << {Heading} >> \o content ELSE <<>>)
             \o << {Heading}, Plain >>

\* relevant_prompt: the system prompt handed to the agent carries the
\* "starting on a page ... highly relevant" instruction.
AgentCall(called, task, base_url, starting_url, url_to_use, relevant_prompt, outcome, content, result) ==
    [called |-> called, task |-> task, base_url |-> base_url,
     starting_url |-> starting_url, url_to_use |-> url_to_use,
     relevant_prompt |-> relevant_prompt,
     outcome |-> outcome, content |-> content, result |-> result]

NoAgentCall == AgentCall(FALSE, NoQuery, NoUrl, NoUrl, NoUrl, FALSE, "none", <<>>, <<>>)

\* note: the URL named in "Started search from the most relevant page", NoUrl
\* when the response shown has no such line.
Processed(ai, strategy, pages, agent, branch, note, shown, history) ==
    [ai |-> ai, strategy |-> strategy, pages |-> pages, agent |-> agent,
     branch |-> branch, note |-> note, shown |-> shown, history |-> history]

NoProcess == Processed("none", "none", <<>>, NoAgentCall, "none", NoUrl, <<>>, <<>>)

DomainBackstop(base_url, url_to_use) ==
    Netloc(base_url) # "" /\ Netloc(url_to_use) # ""
    /\ Netloc(base_url) # Netloc(url_to_use)

\* is_relevant_page = starting_url is not None and starting_url != base_url
IsRelevantPage(base_url, starting_url) ==
    starting_url # NoUrl /\ starting_url # base_url

RunAgentTask(task, base_url, starting_url, outcome, content) ==
    LET proposed == IF starting_url # NoUrl THEN starting_url ELSE base_url
        url_to_use == IF DomainBackstop(base_url, proposed) THEN base_url
                      ELSE proposed
        is_relevant_page == IsRelevantPage(base_url, starting_url)
    IN  IF ~api_key_set
        THEN AgentCall(TRUE, task, base_url, starting_url, NoUrl, FALSE, "no_key",
                       <<>>, <<>>)
        ELSE IF outcome # "ran"
        THEN AgentCall(TRUE, task, base_url, starting_url, url_to_use, FALSE,
                       outcome, <<>>, <<>>)
        ELSE AgentCall(TRUE, task, base_url, starting_url, url_to_use,
                       is_relevant_page, outcome,
                       content, ProcessAgentHistory(content))

StartingUrl(relevant_pages, website_url) ==
    IF relevant_pages = <<>> THEN NoUrl
    ELSE LET candidate_url == relevant_pages[1].url
         IN  IF candidate_url = NoUrl \/ StartsWithHash(candidate_url) THEN NoUrl
             ELSE IF StartsWithHttp(candidate_url) THEN candidate_url
             ELSE Urljoin(website_url, candidate_url)

ChatInit ==
    /\ api_key_set \in BOOLEAN
    /\ site_data \in SiteDatas
    /\ chat_pc = "idle"
    /\ user_input = NoQuery
    /\ ai_call = NoAiCall
    /\ display = NoDisplay
    /\ process = NoProcess

\* query_mapping_display.display_query_mapping, as render_chat_interface calls
\* it on a new input.
DisplayQueryMapping(query) ==
    /\ chat_pc = "idle"
    /\ user_input' = query
    /\ \E llm \in LlmBehaviours(site_data, "qmd") :
         LET out == FindRelevantPagesWithAi(site_data, "qmd", llm)
         IN  /\ ai_call' = AiCall("qmd", llm, out)
             /\ display' =
                  IF out.kind = "breach"
                  THEN Shown("qmd", out.kind, "security_alert", "none", <<>>)
                  ELSE IF out.kind = "error"
                  THEN Shown("qmd", out.kind, "table", "keywords",
                             FindRelevantPagesWithKeywords(
                                 query, ExtractKeywords(query), site_data))
                  ELSE Shown("qmd", out.kind, "table", "ai", out.pages)
    /\ chat_pc' = "agent"
    /\ UNCHANGED << crawlVars, pageVars, rankVars, fetchVars, api_key_set, site_data, process >>

IsSecurityAlert(result) == Mentions(result, AlertPhrase)

RemoveMarkerParagraphs(result) ==
    SelectSeq(result, LAMBDA paragraph : ~HasMarker(paragraph))

AddStructure(cleaned_result) ==
    IF Mentions(cleaned_result, Heading) \/ Mentions(cleaned_result, "# ")
    THEN cleaned_result
    ELSE IF cleaned_result = <<>> THEN << {Heading} >>
    ELSE << {Heading}, Head(cleaned_result) >>
         \o (IF Len(cleaned_result) > 1
             THEN << {Heading} >> \o Tail(cleaned_result) ELSE <<>>)

\* The fixed alert of the security branch and the error text of the except
\* branch; neither carries the result.
AlertResponse == << Plain, Plain, Plain >>

ErrorResponse == << Plain, Plain >>

ShowResult(pages, ai, strategy, agent, starting_url) ==
    IF agent.outcome # "ran"
    THEN Processed(ai, strategy, pages, agent, "error", NoUrl,
                   ErrorResponse, ErrorResponse)
    ELSE LET cleaned_result == AddStructure(RemoveMarkerParagraphs(agent.result))
             named == IF starting_url # NoUrl /\ starting_url # WebsiteUrl
                      THEN starting_url ELSE NoUrl
             note == IF named # NoUrl THEN << Plain >> ELSE <<>>
             full_response == << Plain >> \o note \o cleaned_result
         IN  IF IsSecurityAlert(agent.result)
             THEN Processed(ai, strategy, pages, agent, "alert", NoUrl,
                            agent.result \o AlertResponse, AlertResponse)
             ELSE Processed(ai, strategy, pages, agent, "normal", named,
                            full_response, full_response)

\* chat_interface._process_agent_input, called right after the display.
ProcessAgentInput ==
    /\ chat_pc = "agent"
    /\ \E llm \in LlmBehaviours(site_data, "qmd"), run \in AgentRuns(site_data) :
         LET out == FindRelevantPagesWithAi(site_data, "qmd", llm)
             fallback == out.kind # "list"
             relevant_pages ==
                 IF fallback
                 THEN FindRelevantPagesWithKeywords(
                          user_input, ExtractKeywords(user_input), site_data)
                 ELSE out.pages
             starting_url == StartingUrl(relevant_pages, WebsiteUrl)
         IN  /\ ai_call' = AiCall("qmd", llm, out)
             /\ process' = ShowResult(relevant_pages, out.kind,
                                      IF fallback THEN "keywords" ELSE "ai",
                                      RunAgentTask(user_input, WebsiteUrl,
                                                   starting_url, run.outcome,
                                                   run.content),
                                      starting_url)
    /\ chat_pc' = "done"
    /\ UNCHANGED << crawlVars, pageVars, rankVars, fetchVars, api_key_set, site_data, user_input, display >>

\* security_breach_exception.display_query_mapping.  Its keyword fallback is
\* commented out, so after a failed semantic call relevant_pages is unbound
\* when the table is built.
DisplayQueryMappingSBE(query) ==
    /\ chat_pc = "idle"
    /\ user_input' = query
    /\ \E llm \in LlmBehaviours(site_data, "sbe") :
         LET out == FindRelevantPagesWithAi(site_data, "sbe", llm)
         IN  /\ ai_call' = AiCall("sbe", llm, out)
             /\ display' =
                  IF out.kind = "breach"
                  THEN Shown("sbe", out.kind, "security_alert", "none", <<>>)
                  ELSE IF out.kind = "error"
                  THEN Shown("sbe", out.kind, "raised", "none", <<>>)
                  ELSE Shown("sbe", out.kind, "table", "ai", out.pages)
    /\ chat_pc' = "done"
    /\ UNCHANGED << crawlVars, pageVars, rankVars, fetchVars, api_key_set, site_data, process >>

\* st.rerun(): the script starts over and waits for the next input.
Rerun ==
    /\ chat_pc = "done"
    /\ chat_pc' = "idle"
    /\ user_input' = NoQuery
    /\ ai_call' = NoAiCall
    /\ display' = NoDisplay
    /\ process' = NoProcess
    /\ UNCHANGED << crawlVars, pageVars, rankVars, fetchVars, api_key_set, site_data >>

ChatNext ==
    \/ \E query \in Queries : DisplayQueryMapping(query)
    \/ ProcessAgentInput
    \/ \E query \in Queries : DisplayQueryMappingSBE(query)
    \/ Rerun

-----------------------------------------------------------------------------
\* extract_site_structure (services/sitemap_service.py): the navigation
\* links of one HTML page.
\*
\* A page is a sequence of top-level elements in document order.  An element
\* has a tag, the value of its class attribute (NoClass when it has none)
\* and the <a href> elements inside it.

NoClass == "<none>"

Anchor(href, text) == [href |-> href, text |-> text]

PricingAnchor == Anchor(Url("", "", "/pricing", ""), "Pricing")
ShopAnchor == Anchor(Url("https", "evil.org", "/shop", ""), "Shop")
MailAnchor == Anchor(Url("mailto", "", "sales@ex.com", ""), "Mail us")

Anchors == { PricingAnchor, ShopAnchor, MailAnchor }

AnchorLists == UNION { [1..n -> Anchors] : n \in 0..MaxAnchors }

Element(tag, class, links) == [tag |-> tag, class |-> class, links |-> links]

ElementKinds ==
    { <<"nav", NoClass>>, <<"nav", "navbar">>, <<"nav", "footer-nav">>,
      <<"div", "main-menu">>, <<"div", "content">>, <<"footer", NoClass>> }

Elements == { Element(k[1], k[2], ls) : k \in ElementKinds, ls \in AnchorLists }

Documents == UNION { [1..n -> Elements] : n \in 0..MaxElements }

PageUrls == { Root, About }

\* "term in str(c).lower()" for the class values of the model.
ClassContains ==
    { <<"navbar", "nav">>, <<"footer-nav", "nav">>, <<"footer-nav", "footer">>,
      <<"main-menu", "menu">>, <<"main-menu", "main">>,
      <<"main-menu", "main-menu">> }

NavTerms == { "nav", "menu", "header", "topbar", "toolbar", "main-menu" }

\* soup.find_all(['nav', 'header', 'div', 'ul'], class_=lambda c: c and any(...)):
\* the function is called with None for an element without a class attribute.
IsNavElement(el) ==
    /\ el.tag \in { "nav", "header", "div", "ul" }
    /\ el.class # NoClass
    /\ \E term \in NavTerms : <<el.class, term>> \in ClassContains

NavTypes == << "main", "primary", "secondary", "footer", "sidebar", "utility",
               "social" >>

Capitalized(nav_type) ==
    CASE nav_type = "main" -> "Main Navigation"
      [] nav_type = "primary" -> "Primary Navigation"
      [] nav_type = "secondary" -> "Secondary Navigation"
      [] nav_type = "footer" -> "Footer Navigation"
      [] nav_type = "sidebar" -> "Sidebar Navigation"
      [] nav_type = "utility" -> "Utility Navigation"
      [] OTHER -> "Social Navigation"

\* _determine_section_name for an element without aria-label, title, id,
\* preceding heading or header/footer/aside parent.
DetermineSectionName(el) ==
    LET hits == { i \in 1..Len(NavTypes) :
                      el.class # NoClass /\ <<el.class, NavTypes[i]>> \in ClassContains }
    IN  IF hits = {} THEN "Main Navigation"
        ELSE Capitalized(NavTypes[CHOOSE i \in hits : \A j \in hits : i <= j])

SocialTexts == {}

\* _should_skip_link: no text, a text of one character, or a social network
\* name in the text.
ShouldSkipLink(a) == a.text = "" \/ a.text \in SocialTexts

\* href.startswith(('http://', 'https://', 'mailto:', 'tel:', '#', 'javascript:'))
IsAbsoluteOrSpecial(href) ==
    \/ href.scheme \in { "http", "https", "mailto", "tel", "javascript" }
    \/ StartsWithHash(href)

\* href.startswith(base_url), on the strings
NetlocPrefixes == { <<"ex.com", "ex.com.evil.org">> }

PathPrefixes == { <<"/about", "/about/team">> }

StartsWithUrl(href, base_url) ==
    /\ href.scheme = base_url.scheme
    /\ IF base_url.path = ""
       THEN href.netloc = base_url.netloc
            \/ <<base_url.netloc, href.netloc>> \in NetlocPrefixes
       ELSE /\ href.netloc = base_url.netloc
            /\ href.path = base_url.path
               \/ <<base_url.path, href.path>> \in PathPrefixes

IsExternal(href, base_url) ==
    ~StartsWithUrl(href, base_url) /\ StartsWithHttp(href)

LinkInfo(text, url, section, is_external) ==
    [text |-> text, url |-> url, section |-> section, is_external |-> is_external]

ResolveHref(href, base_url) ==
    IF IsAbsoluteOrSpecial(href) THEN href ELSE Urljoin(base_url, href)

\* href == base_url or href == base_url + '/'
IsBaseUrl(href, base_url) ==
    \/ href = base_url
    \/ base_url.path = "" /\ href = [base_url EXCEPT !.path = "/"]

\* The loop over one container's links: append the link unless it is
\* skipped or its url is already in nav_links.
RECURSIVE AddLinks(_, _, _, _)
AddLinks(nav_links, anchors, section_name, base_url) ==
    IF anchors = <<>> THEN nav_links
    ELSE LET a == Head(anchors)
             href == ResolveHref(a.href, base_url)
             skip == \/ ShouldSkipLink(a)
                     \/ href.scheme \in { "mailto", "tel", "javascript" }
                     \/ IsBaseUrl(href, base_url)
                     \/ \E i \in 1..Len(nav_links) : nav_links[i].url = href
             next == IF skip THEN nav_links
                     ELSE Append(nav_links,
                                 LinkInfo(a.text, href, section_name,
                                          IsExternal(href, base_url)))
         IN  AddLinks(next, Tail(anchors), section_name, base_url)

RECURSIVE ExtractNavigationLinks(_, _, _)
ExtractNavigationLinks(nav_links, html, base_url) ==
    IF html = <<>> THEN nav_links
    ELSE LET el == Head(html)
             next == IF IsNavElement(el)
                     THEN AddLinks(nav_links, el.links,
                                   DetermineSectionName(el), base_url)
                     ELSE nav_links
         IN  ExtractNavigationLinks(next, Tail(html), base_url)

\* _extract_additional_navigation: the links of the first <footer>, without
\* a check for duplicates.
ExtractAdditionalNavigation(html, base_url) ==
    LET footers == { i \in 1..Len(html) : html[i].tag = "footer" }
    IN  IF footers = {} THEN <<>>
        ELSE LET footer == html[CHOOSE i \in footers : \A j \in footers : i <= j]
                 kept(a) == LET href == ResolveHref(a.href, base_url)
                            IN  /\ href.scheme \notin { "mailto", "tel", "javascript" }
                                /\ href.frag = ""
                                /\ a.text # ""
                 info(a) == LET href == ResolveHref(a.href, base_url)
                            IN  LinkInfo(a.text, href, "Footer Links",
                                         IsExternal(href, base_url))
                 as == SelectSeq(footer.links, kept)
             IN  [i \in 1..Len(as) |-> info(as[i])]

SiteStructure(html, base_url) ==
    [navigation_links |->
        ExtractNavigationLinks(<<>>, html, base_url)
            \o ExtractAdditionalNavigation(html, base_url)]

NoPage == [url |-> NoUrl, html |-> <<>>]

NoStructure == [navigation_links |-> <<>>]

PageQuiet == page = NoPage /\ structure = NoStructure

\* extract_site_structure(html_content, base_url)
ExtractSiteStructure(url, html) ==
    /\ page = NoPage
    /\ page' = [url |-> url, html |-> html]
    /\ structure' = SiteStructure(html, url)
    /\ UNCHANGED << crawlVars, chatVars, rankVars, fetchVars >>

\* The caller is done with the structure.
DropStructure ==
    /\ page # NoPage
    /\ page' = NoPage
    /\ structure' = NoStructure
    /\ UNCHANGED << crawlVars, chatVars, rankVars, fetchVars >>

PageNext ==
    \/ \E url \in PageUrls, html \in Documents : ExtractSiteStructure(url, html)
    \/ DropStructure

(***************************************************************************)
(* The two ranking strategies of query_mapping_display, applied on their    *)
(* own to inventories and responses larger than the chat flow tries.        *)
(***************************************************************************)

Shop == Url("https", "ex.com", "/shop", "")

RankLinks ==
    { NavLink(<<"pricing", "plans">>, Pricing, <<"main", "navigation">>),
      NavLink(<<"shop">>, Shop, <<"main", "navigation">>),
      NavLink(<<"about">>, About, <<"main", "navigation">>),
      NavLink(<<"team">>, Team, <<"footer", "links">>) }

RankSites ==
    { SiteData(nav, <<>>) : nav \in UNION { [1..n -> RankLinks] : n \in 0..MaxLinks } }

RankQueries == { <<"pricing", "plans">>, <<"how", "much", "does", "it", "cost">> }

\* doubled like ResponseScore: 12.0
OverScore == 24

RankEntries ==
    { Entry(Pricing, TRUE, ResponseScore), Entry(Pricing, TRUE, OverScore) }

RankResponses ==
    { [raised |-> FALSE, sentinel |-> FALSE, json |-> "array", pages |-> ps] :
          ps \in UNION { [1..n -> RankEntries] : n \in 0..MaxEntries } }
    \cup { Raises }

Ranked(strategy, query, site, kind, pages) ==
    [strategy |-> strategy, query |-> query, site |-> site, kind |-> kind,
     pages |-> pages]

NoRanking == Ranked("none", NoQuery, SiteEmpty, "none", <<>>)

RankQuiet == ranking = NoRanking

\* _find_relevant_pages_with_keywords(user_query, keywords, site_data)
RankWithKeywords(query, site) ==
    /\ ranking = NoRanking
    /\ ranking' = Ranked("keywords", query, site, "list",
                         FindRelevantPagesWithKeywords(
                             query, ExtractKeywords(query), site))
    /\ UNCHANGED << crawlVars, chatVars, pageVars, fetchVars >>

\* _find_relevant_pages_with_ai(user_query, site_data)
RankWithAi(query, site, llm) ==
    /\ ranking = NoRanking
    /\ LET out == FindRelevantPagesWithAi(site, "qmd", llm)
       IN  ranking' = Ranked("ai", query, site, out.kind, out.pages)
    /\ UNCHANGED << crawlVars, chatVars, pageVars, fetchVars >>

\* The list is per query: the next query starts from nothing.
DropRanking ==
    /\ ranking # NoRanking
    /\ ranking' = NoRanking
    /\ UNCHANGED << crawlVars, chatVars, pageVars, fetchVars >>

RankNext ==
    \/ \E query \in RankQueries, site \in RankSites : RankWithKeywords(query, site)
    \/ \E query \in RankQueries, site \in RankSites, llm \in RankResponses :
           RankWithAi(query, site, llm)
    \/ DropRanking

(***************************************************************************)
(* fetch_website_content and _apply_rate_limiting on one extractor, at the *)
(* grain of their steps: the cache test, the lock, the sleep inside the     *)
(* lock, the time stamp, the GET and the cache write are separate steps of *)
(* a thread, and the other threads run in between.                         *)
(***************************************************************************)
\* the last tick of time.time() that is followed
MaxClock == 3

\* self.request_interval = 60.0 / max(1, requests_per_minute), in ticks
RequestInterval == 2

\* The thread of the caller (extract_sitemap) and a crawl thread.
FetchThreads == {"caller", "SiteMapper"}

\* A page of one domain and a page of another one.
FetchUrls == {Root, Ext}

\* response.text: a server need not answer two GETs of a URL alike.
Bodies == {"html-1", "html-2"}

\* rate_limit_lock when no thread holds it.
NoHolder == "none"

IdleFetcher == [pc |-> "idle", url |-> Root, wake |-> 0, ret |-> "none"]

\* A call that has returned: its locals are gone, the value it returned stays.
FetchReturned(value) == [IdleFetcher EXCEPT !.ret = value]

\* The thread holds the lock inside time.sleep.
Sleeping(f) == rate_limit_lock = f /\ now < fetchers[f].wake

\* fetch_website_content, its first statement: a cached URL is returned from
\* the cache, any other goes on to the rate limiting.
FetchWebsiteContent(f, url) ==
    /\ fetchers[f].pc = "idle"
    /\ fetchers' = [fetchers EXCEPT ![f] =
           IF url \in DOMAIN cache_entries
           THEN FetchReturned(cache_entries[url])
           ELSE [pc |-> "limit", url |-> url, wake |-> 0, ret |-> "none"]]
    /\ UNCHANGED << now, rate_limit_lock, last_request_time, cache_entries, requests >>
    /\ UNCHANGED << crawlVars, chatVars, pageVars, rankVars >>

\* _apply_rate_limiting up to the sleep: take the lock, read the clock, and
\* work out until when to sleep (not at all when the domain is new or the
\* interval has passed).
ApplyRateLimiting(f) ==
    LET domain == Netloc(fetchers[f].url)
        elapsed == now - last_request_time[domain]
    IN  /\ fetchers[f].pc = "limit"
        /\ rate_limit_lock = NoHolder
        /\ rate_limit_lock' = f
        /\ fetchers' = [fetchers EXCEPT ![f].pc = "locked", ![f].wake =
               IF domain \in DOMAIN last_request_time /\ elapsed < RequestInterval
               THEN now + (RequestInterval - elapsed)
               ELSE now]
        /\ UNCHANGED << now, last_request_time, cache_entries, requests >>
        /\ UNCHANGED << crawlVars, chatVars, pageVars, rankVars >>

\* The end of _apply_rate_limiting: the sleep is over, the domain's time
\* stamp is set to the clock and the lock is released.
UpdateLastRequestTime(f) ==
    /\ fetchers[f].pc = "locked"
    /\ rate_limit_lock = f
    /\ now >= fetchers[f].wake
    /\ last_request_time' = Put(last_request_time, Netloc(fetchers[f].url), now)
    /\ rate_limit_lock' = NoHolder
    /\ fetchers' = [fetchers EXCEPT ![f].pc = "get"]
    /\ UNCHANGED << now, cache_entries, requests >>
    /\ UNCHANGED << crawlVars, chatVars, pageVars, rankVars >>

\* The ticks of the GETs sent to a domain so far, the two latest of them.
Sent(domain) == IF domain \in DOMAIN requests THEN requests[domain] ELSE << >>

LatestTwo(sent, tick) ==
    IF sent = << >> THEN << tick >> ELSE << sent[Len(sent)], tick >>

\* self.session.get(url): the request goes out.  A status of 400 or more and
\* an exception both end the call with None.
SessionGet(f, outcome, body) ==
    /\ fetchers[f].pc = "get"
    /\ requests' = Put(requests, Netloc(fetchers[f].url),
                       LatestTwo(Sent(Netloc(fetchers[f].url)), now))
    /\ fetchers' = [fetchers EXCEPT ![f] =
           IF outcome = "ok"
           THEN [fetchers[f] EXCEPT !.pc = "cache", !.ret = body]
           ELSE FetchReturned("None")]
    /\ UNCHANGED << now, rate_limit_lock, last_request_time, cache_entries >>
    /\ UNCHANGED << crawlVars, chatVars, pageVars, rankVars >>

\* self.content_cache[url] = html_content; return html_content
CacheContent(f) ==
    /\ fetchers[f].pc = "cache"
    /\ cache_entries' = Put(cache_entries, fetchers[f].url, fetchers[f].ret)
    /\ fetchers' = [fetchers EXCEPT ![f] = FetchReturned(fetchers[f].ret)]
    /\ UNCHANGED << now, rate_limit_lock, last_request_time, requests >>
    /\ UNCHANGED << crawlVars, chatVars, pageVars, rankVars >>

\* Time passes.
Tick ==
    /\ now < MaxClock
    /\ now' = now + 1
    /\ UNCHANGED << rate_limit_lock, last_request_time, cache_entries, fetchers,
                    requests >>
    /\ UNCHANGED << crawlVars, chatVars, pageVars, rankVars >>

FetchQuiet ==
    /\ now = 0
    /\ rate_limit_lock = NoHolder
    /\ last_request_time = EmptyMap
    /\ cache_entries = EmptyMap
    /\ fetchers = [f \in FetchThreads |-> IdleFetcher]
    /\ requests = EmptyMap

FetchNext ==
    \/ \E f \in FetchThreads, url \in FetchUrls : FetchWebsiteContent(f, url)
    \/ \E f \in FetchThreads : ApplyRateLimiting(f)
    \/ \E f \in FetchThreads : UpdateLastRequestTime(f)
    \/ \E f \in FetchThreads, body \in Bodies : SessionGet(f, "ok", body)
    \/ \E f \in FetchThreads : SessionGet(f, "fail", "None")
    \/ \E f \in FetchThreads : CacheContent(f)
    \/ Tick

\* No chat is going on while the crawler is studied, and no crawl while the
\* chat is.
ChatQuiet ==
    /\ api_key_set = FALSE
    /\ site_data = SiteEmpty
    /\ chat_pc = "idle"
    /\ user_input = NoQuery
    /\ ai_call = NoAiCall
    /\ display = NoDisplay
    /\ process = NoProcess

CrawlQuiet ==
    /\ web = WebChain
    /\ max_depth = MaxDepthSetting
    /\ max_pages = MaxPagesSetting
    /\ built = FALSE
    /\ site_maps = EmptyMap
    /\ mapping_status = EmptyMap
    /\ content_cache = {}
    /\ threads = [i \in ThreadSlots |-> NoThread]
    /\ orphans = 0
    /\ callers = [c \in Callers |-> IdleCaller]

Init == CrawlInit /\ ChatQuiet /\ PageQuiet /\ RankQuiet /\ FetchQuiet

Next == CrawlNext

Spec == Init /\ [][Next]_vars

\* The calls the application itself makes: generate_sitemap from the chat
\* page, and extract_sitemap with its start_site_mapping; no other thread
\* calls start_site_mapping.
NextApp ==
    \/ \E raw \in RawInputs : GenerateSitemap(raw)
    \/ \E raw \in RawInputs : ExtractSitemap(raw)
    \/ StartSiteMappingCheck("ui")
    \/ StartSiteMappingCommit("ui")
    \/ \E i \in ThreadSlots : CrawlStep(i)
    \/ \E i \in ThreadSlots : CrawlFinish(i)
    \/ OrphanFinish

\* Every crawl thread is scheduled again and again, and each of its fetches
\* returns: an iteration or the end of the loop that stays possible is taken.
CrawlFairness ==
    /\ \A i \in ThreadSlots : WF_vars(CrawlStep(i)) /\ WF_vars(CrawlFinish(i))
    /\ WF_vars(OrphanFinish)

SpecFair == Init /\ [][NextApp]_vars /\ CrawlFairness

InitChat == CrawlQuiet /\ ChatInit /\ PageQuiet /\ RankQuiet /\ FetchQuiet

SpecChat == InitChat /\ [][ChatNext]_vars

InitPage == CrawlQuiet /\ ChatQuiet /\ PageQuiet /\ RankQuiet /\ FetchQuiet

SpecPage == InitPage /\ [][PageNext]_vars

\* The strategies are tried with and without an API key.
InitRank ==
    /\ CrawlQuiet /\ PageQuiet /\ RankQuiet /\ FetchQuiet
    /\ api_key_set \in BOOLEAN
    /\ site_data = SiteEmpty
    /\ chat_pc = "idle"
    /\ user_input = NoQuery
    /\ ai_call = NoAiCall
    /\ display = NoDisplay
    /\ process = NoProcess

SpecRank == InitRank /\ [][RankNext]_vars

InitFetch == CrawlQuiet /\ ChatQuiet /\ PageQuiet /\ RankQuiet /\ FetchQuiet

SpecFetch == InitFetch /\ [][FetchNext]_vars

-----------------------------------------------------------------------------
\* Properties of the chat flow, checked under SpecChat.

\* C1: when a semantic mapping call for the current query signals a breach,
\* the query is not handed to the keyword strategy and run_agent_task is not
\* invoked with it.
BreachedQueryNeverExecuted ==
    (display.module = "qmd" /\ (display.ai = "breach" \/ process.ai = "breach"))
        => (process.strategy # "keywords" /\ ~process.agent.called)

\* C2: a response text that holds the sentinel, with or without a JSON array
\* beside it, ends the call with a breach and without a candidate list; a
\* call never ends both ways.
SentinelMeansBreach ==
    /\ ai_call.llm.sentinel
           => (ai_call.outcome.kind = "breach" /\ ai_call.outcome.pages = <<>>)
    /\ ai_call.outcome.kind = "breach" => ai_call.outcome.pages = <<>>
    /\ display.ai = "breach" => display.pages = <<>>

SentinelBesideArray ==
    /\ ai_call.llm.sentinel
    /\ ai_call.llm.json = "array"
    /\ Len(ai_call.llm.pages) > 0
    /\ ai_call.outcome.kind = "breach"

\* C3: every candidate the semantic strategy returns has a url that was in
\* the inventory sent to the model; response entries with another url are
\* dropped.
CandidatesAreWhitelisted ==
    ai_call.variant # "none" =>
        LET inventory == NavigationData(site_data, ai_call.variant)
            inventory_urls == { inventory[i].url : i \in 1..Len(inventory) }
            pages == ai_call.outcome.pages
        IN  /\ \A i \in 1..Len(pages) : pages[i].url \in inventory_urls
            /\ \A i \in 1..Len(pages) :
                   \E j \in 1..Len(ai_call.llm.pages) :
                       ai_call.llm.pages[j].url = pages[i].url

ForeignEntryDropped ==
    /\ ai_call.outcome.kind = "list"
    /\ Len(ai_call.outcome.pages) > 0
    /\ \E j \in 1..Len(ai_call.llm.pages) :
           LET inventory == NavigationData(site_data, ai_call.variant)
           IN  /\ ai_call.llm.pages[j].complete
               /\ \A i \in 1..Len(inventory) :
                      inventory[i].url # ai_call.llm.pages[j].url

\* C4: when the netloc of the proposed starting URL differs from the netloc
\* of base_url, the agent is started at base_url.
AgentStartsOnBaseDomain ==
    LET a == process.agent
    IN  (a.called /\ a.outcome = "ran" /\ a.starting_url # NoUrl
         /\ Netloc(a.starting_url) # Netloc(a.base_url))
            => a.url_to_use = a.base_url

\* C5: in each of the three callers an error of the semantic call other than
\* a breach leaves the caller with the keyword strategy's list, and no
\* exception leaves the caller.
ErrorsFallBackToKeywords ==
    LET keyword_list == FindRelevantPagesWithKeywords(
                            user_input, ExtractKeywords(user_input), site_data)
    IN  /\ display.ai = "error"
               => /\ display.result = "table"
                  /\ display.strategy = "keywords"
                  /\ display.pages = keyword_list
        /\ process.ai = "error"
               => /\ process.strategy = "keywords"
                  /\ process.pages = keyword_list

-----------------------------------------------------------------------------
\* Properties of the crawler, checked under Spec.

\* C6: at most one background crawl is active for a domain at any moment.
\* (Every analyzed site is on ex.com, so the threads of replaced extractors
\* are crawls of ex.com.)
AtMostOneCrawlPerDomain ==
    \A d \in Domains :
        Cardinality({ i \in Running : threads[i].domain = d })
            + (IF d = "ex.com" THEN orphans ELSE 0) <= 1

\* C7: start_site_mapping called while the domain's status is in_progress
\* returns False, starts no thread, and leaves mapping_status, the site map,
\* the content cache and every running crawl's queue and visited set as they
\* were.
RejectedStartIsNoOp ==
    [][\A c \in Callers :
          (/\ callers[c].pc = "start"
           /\ Netloc(callers[c].url) \in DOMAIN mapping_status
           /\ mapping_status[Netloc(callers[c].url)] = "in_progress"
           /\ callers'[c] # callers[c])
              => /\ callers'[c].pc = "idle"
                 /\ callers'[c].ret = "False"
                 /\ UNCHANGED << mapping_status, site_maps, content_cache,
                                 threads, orphans >>]_vars

StartRejected ==
    \E c \in Callers :
        /\ callers[c].ret = "False"
        /\ Running # {}
        /\ \E d \in DOMAIN mapping_status : mapping_status[d] = "in_progress"

\* C8: once a domain's status is completed, start_site_mapping for that
\* domain returns False and starts no crawl.
CompletedIsNotRestarted ==
    [][\A c \in Callers :
          (/\ callers[c].pc = "start"
           /\ Netloc(callers[c].url) \in DOMAIN mapping_status
           /\ mapping_status[Netloc(callers[c].url)] = "completed"
           /\ callers'[c] # callers[c])
              => /\ callers'[c].pc = "idle"
                 /\ callers'[c].ret = "False"
                 /\ UNCHANGED << mapping_status, threads >>]_vars

\* C9: every key of site_maps[domain] has netloc domain, and a crawl neither
\* fetches nor records a URL off its seed domain.
DomainContainment ==
    /\ \A d \in DOMAIN site_maps :
           \A u \in DOMAIN site_maps[d] : Netloc(u) = d
    /\ \A i \in Running :
           /\ \A u \in threads[i].visited : Netloc(u) = Netloc(threads[i].base_url)
           /\ \A e \in threads[i].log : Netloc(e[1]) = Netloc(threads[i].base_url)
    /\ \A u \in content_cache : Netloc(u) = "ex.com"

ExternalLinkSkipped ==
    /\ web = WebMesh
    /\ \E i \in Running :
           /\ threads[i].base_url = Root
           /\ threads[i].log = { <<Root, 0>>, <<About, 1>> }
           /\ ~LoopCondition(threads[i])
    /\ "ex.com" \in DOMAIN site_maps
    /\ About \in DOMAIN site_maps["ex.com"]

\* The URLs at the end of a path of the given length from base_url in the
\* link graph.
RECURSIVE ReachedIn(_, _)
ReachedIn(base_url, depth) ==
    IF depth = 0 THEN {base_url}
    ELSE UNION { { web[u][k].url : k \in 1..Len(web[u]) } :
                     u \in ReachedIn(base_url, depth - 1) }

\* C10: every URL a crawl writes into the site map was dequeued with a depth
\* of at most max_depth, which is the length of a path from base_url in the
\* link graph; no entry deeper than max_depth is put on the queue.  The site
\* / -> /about -> /about/team crawled from / with max_depth 1 never records
\* /about/team, and records / and /about when the page budget allows two
\* pages and no fetch fails.
DepthBound ==
    \A i \in Running :
        LET t == threads[i]
        IN  /\ \A e \in t.log :
                   e[2] <= max_depth /\ e[1] \in ReachedIn(t.base_url, e[2])
            /\ \A k \in 1..Len(t.to_visit) :
                   /\ t.to_visit[k][2] <= max_depth
                   /\ t.to_visit[k][1] \in ReachedIn(t.base_url, t.to_visit[k][2])
            /\ (web = WebChain /\ max_depth = 1 /\ t.base_url = Root)
                   => /\ \A e \in t.log : e[1] # Team
                      /\ (~LoopCondition(t) /\ t.error_count = 0 /\ max_pages >= 2)
                             => t.log = { <<Root, 0>>, <<About, 1>> }

ChainCrawledToDepthOne ==
    /\ web = WebChain
    /\ max_depth = 1
    /\ \E i \in Running :
           /\ threads[i].base_url = Root
           /\ threads[i].log = { <<Root, 0>>, <<About, 1>> }
           /\ threads[i].to_visit = <<>>
\* C11: when a domain's status is completed, its site map has at most
\* max_pages + 1 keys, also after the domain was analyzed again from another
\* start URL on the same extractor.
PageBudget ==
    \A d \in DOMAIN mapping_status :
        (mapping_status[d] = "completed" /\ d \in DOMAIN site_maps)
            => Cardinality(DOMAIN site_maps[d]) <= max_pages + 1

-----------------------------------------------------------------------------
\* Properties of extract_site_structure, checked under SpecPage.

\* C12: a <nav> element is a navigation container with or without a class
\* attribute: every link in it that is not skipped is in navigation_links,
\* and the page <nav><a href="/pricing">Pricing</a></nav> at https://ex.com
\* gives the link Pricing, https://ex.com/pricing, Main Navigation, not
\* external.
NavElementIsContainer ==
    /\ \A i \in 1..Len(page.html) :
           page.html[i].tag = "nav" =>
               \A k \in 1..Len(page.html[i].links) :
                   page.html[i].links[k] = PricingAnchor =>
                       \E j \in 1..Len(structure.navigation_links) :
                           structure.navigation_links[j].url = Pricing
    /\ (page.url = Root /\ page.html = << Element("nav", NoClass, <<PricingAnchor>>) >>)
           => \E j \in 1..Len(structure.navigation_links) :
                  structure.navigation_links[j] =
                      LinkInfo("Pricing", Pricing, "Main Navigation", FALSE)

\* C19: when generate_sitemap cannot use the entry page (the fetch returns
\* None, or extract_site_structure returns an error), its result carries an
\* 'error' key, the page is not stored in the site map and no crawl is
\* started from it.
UnusableEntryIsReported ==
    [][\A raw \in RawInputs, outcome \in {"bad", "fail"} :
           GenerateSitemapWith(raw, outcome)
           => LET url == NormalizeUrl(raw)
                  domain == Netloc(url)
              IN  /\ callers'["ui"].ret = "error"
                  /\ ~(domain \in DOMAIN site_maps'
                       /\ url \in DOMAIN site_maps'[domain])
                  /\ \A i \in ThreadSlots : ~threads'[i].running]_vars

\* The thread of slot i has been through its first iteration, which visits
\* the base URL.
InLoop(i) == threads[i].running /\ threads[i].visited # {}

\* The slot holds no thread, or the thread of a new extractor that is still
\* before its first iteration: generate_sitemap has replaced the extractor,
\* and the thread that ran here goes on outside the slots until OrphanFinish.
LeftSlot(i) == ~threads[i].running \/ threads[i].visited = {}

\* C20: every started crawl terminates.  A thread that is in its loop comes
\* to its end; it goes through another iteration only while its queue is not
\* empty, it has visited fewer than max_pages pages and error_count is below
\* half of max_pages; and when it ends the status of its domain is
\* "completed" or "error", not "in_progress".  Checked under SpecFair.
CrawlTerminates ==
    /\ \A i \in ThreadSlots : InLoop(i) ~> LeftSlot(i)
    /\ [][\A i \in ThreadSlots :
            LET t == threads[i]
                limit == \/ Len(t.to_visit) = 0
                         \/ Cardinality(t.visited) >= max_pages
                         \/ 2 * t.error_count >= max_pages
            IN  /\ (t.running /\ threads'[i].running /\ threads'[i] # t
                        /\ orphans' = orphans)
                       => ~limit
                /\ (t.running /\ ~threads'[i].running /\ orphans' = orphans)
                       => /\ limit
                          /\ t.domain \in DOMAIN mapping_status'
                          /\ mapping_status'[t.domain] \in {"completed", "error"}]_vars

\* A crawl that went through the loop and ended with its domain "completed".
CrawlRanToCompletion ==
    \E d \in DOMAIN mapping_status :
        /\ mapping_status[d] = "completed"
        /\ \A i \in ThreadSlots : ~threads[i].running
        /\ d \in DOMAIN site_maps
        /\ \E u \in DOMAIN site_maps[d] : site_maps[d][u] = FullRecord

(***************************************************************************)
(* Properties of the agent result, checked under SpecChat.                 *)
(***************************************************************************)

\* C13: when the output the agent hands back contains SECURITY_BREACH_DETECTED,
\* run_agent_task returns the security alert text and never the agent's
\* output as a normal result.
SentinelOutputIsAlerted ==
    (process.agent.outcome = "ran" /\ Mentions(process.agent.content, Sentinel))
        => process.agent.result = SecurityAlertText

\* C14: no text that _process_agent_input displays or appends to the chat
\* history as the outcome of a run holds a paragraph with a system-prompt
\* marker phrase, on the normal branch and on the security-alert branch.
MarkersNeverShown ==
    /\ \A k \in 1..Len(process.shown) : ~HasMarker(process.shown[k])
    /\ \A k \in 1..Len(process.history) : ~HasMarker(process.history[k])


\* C18: for a non-empty candidate list the starting URL handed to the agent is
\* the URL of the highest-scoring candidate that is not an anchor, and none
\* (the base URL is used) only when every candidate is an anchor.
StartsFromBestRealPage ==
    (process.agent.called /\ process.pages # <<>>)
    => LET pages == process.pages
           real == { i \in 1..Len(pages) :
                       pages[i].url # NoUrl /\ ~StartsWithHash(pages[i].url) }
           best == { i \in real : \A j \in real :
                       \/ pages[j].score < pages[i].score
                       \/ (pages[j].score = pages[i].score /\ i <= j) }
       IN  IF real = {} THEN process.agent.starting_url = NoUrl
           ELSE \E i \in best :
                    process.agent.starting_url =
                        IF StartsWithHttp(pages[i].url) THEN pages[i].url
                        ELSE Urljoin(WebsiteUrl, pages[i].url)

(***************************************************************************)
(* Properties of the ranking strategies, checked under SpecRank.           *)
(***************************************************************************)

Words(text) == { text[i] : i \in 1..Len(text) }

SharesKeyword(link, query) ==
    \E k \in ExtractKeywords(query) :
        \/ ContainsWord(link.text, k)
        \/ ContainsWord(PathWords(link.url), k)
        \/ ContainsWord(link.section, k)

SharesTopic(link, query) ==
    \E m \in 1..Len(TopicMappings) :
        /\ Words(query) \cap TopicMappings[m].pattern # {}
        /\ \E t \in 1..Len(TopicMappings[m].topics) :
               \/ ContainsPhrase(link.text, TopicMappings[m].topics[t])
               \/ ContainsPhrase(UrlWords(link.url), TopicMappings[m].topics[t])

Unrelated(link, query) == ~SharesKeyword(link, query) /\ ~SharesTopic(link, query)

NavLinksOf(site) ==
    { [text |-> site.navigation_links[i].text, url |-> site.navigation_links[i].url,
       section |-> site.navigation_links[i].section, content |-> <<>>] :
          i \in 1..Len(site.navigation_links) }

\* C15: for a query with a price/cost word, the keyword strategy returns, for
\* every link whose text or URL contains 'pricing', a candidate with score at
\* least 10 (20 doubled) that stands before every candidate of a link sharing
\* no keyword and no topic with the query; such a link scores 0.
PricingOutranksUnrelated ==
    (/\ ranking.strategy = "keywords"
     /\ Words(ranking.query) \cap TopicMappings[2].pattern # {})
    => LET pages == ranking.pages
           links == NavLinksOf(ranking.site)
           unrelated == { u \in links : Unrelated(u, ranking.query) }
       IN  /\ \A l \in links :
                 (\/ ContainsWord(l.text, "pricing")
                  \/ ContainsWord(UrlWords(l.url), "pricing"))
                 => \E i \in 1..Len(pages) :
                        /\ pages[i].url = l.url
                        /\ pages[i].score >= 20
                        /\ \A j \in 1..Len(pages) :
                               (\E u \in unrelated : pages[j].url = u.url) => i < j
           /\ \A u \in unrelated :
                 CalculatePageRelevance(u, ExtractKeywords(ranking.query),
                                        ranking.query) = 0

\* C16: every candidate either strategy returns has a score between 0 and 10
\* (0 and 20 doubled).
ScoresInRange ==
    \A i \in 1..Len(ranking.pages) :
        ranking.pages[i].score >= 0 /\ ranking.pages[i].score <= 20

\* C17: the candidate list either strategy returns has at most 5 entries.
AtMostFiveCandidates == Len(ranking.pages) <= 5


(***************************************************************************)
(* Further properties of extract_site_structure, checked under SpecPage.   *)
(***************************************************************************)

\* C21: for every extracted link, is_external is true exactly when the netloc
\* of the resolved link URL differs from the netloc of the page extracted.
ExternalMeansOtherNetloc ==
    \A k \in 1..Len(structure.navigation_links) :
        LET link == structure.navigation_links[k]
        IN  link.is_external <=> Netloc(link.url) # Netloc(page.url)

\* C22: the navigation_links of one extract_site_structure call hold each
\* resolved URL at most once, the footer links that are merged in included.
EachUrlOnce ==
    \A j, k \in 1..Len(structure.navigation_links) :
        structure.navigation_links[j].url = structure.navigation_links[k].url
            => j = k

(***************************************************************************)
(* Properties of fetch_website_content, checked under SpecFetch.           *)
(***************************************************************************)
\* C23: any two HTTP GETs sent to one domain are at least request_interval
\* apart, however the caller's thread and the crawl threads interleave.
RequestsAreSpaced ==
    \A domain \in DOMAIN requests :
        Len(requests[domain]) = 2
            => requests[domain][2] - requests[domain][1] >= RequestInterval

\* C24: a thread waiting out the rate limit of one domain does not keep a
\* thread that fetches from another domain on the same extractor waiting.
WaitingIsPerDomain ==
    \A f, g \in FetchThreads :
        (fetchers[f].pc = "limit" /\ Sleeping(g))
            => Netloc(fetchers[f].url) = Netloc(fetchers[g].url)

\* C25: the content cache is written once per URL: a cached entry is never
\* overwritten and no GET is sent for a URL that is cached, under every
\* interleaving; a failed fetch returns None and adds no entry.
CacheIsWriteOnce ==
    [][ /\ \A u \in DOMAIN cache_entries :
               u \in DOMAIN cache_entries' /\ cache_entries'[u] = cache_entries[u]
        /\ \A f \in FetchThreads :
               (fetchers[f].pc = "get" /\ fetchers'[f].pc # "get")
                   => fetchers[f].url \notin DOMAIN cache_entries
        /\ \A f \in FetchThreads :
               (fetchers[f].pc = "get" /\ fetchers'[f].ret = "None")
                   => cache_entries' = cache_entries ]_vars

(***************************************************************************)
(* Further properties of the crawler, checked under Spec.                  *)
(***************************************************************************)
\* C26: every record that can be read in a site map carries title, links,
\* keywords, headings and crawled_at, and extract_sitemap, called while a
\* crawl of the domain is running or after it, never replaces a record by one
\* with fewer fields.
RecordsAreComplete ==
    [][ /\ \A d \in DOMAIN site_maps' : \A u \in DOMAIN site_maps'[d] :
               FullRecord \subseteq site_maps'[d][u]
        /\ (\E raw \in RawInputs : ExtractSitemap(raw))
               => \A d \in DOMAIN site_maps : \A u \in DOMAIN site_maps[d] :
                      site_maps[d][u] \subseteq site_maps'[d][u] ]_vars

\* An iteration of thread i that fetches the page at the head of its queue:
\* the thread is the same before and after, the entry is taken off, and the
\* URL is neither visited, nor too deep, nor off the domain.
FetchesHead(i) ==
    /\ threads[i].running /\ threads'[i].running
    /\ orphans' = orphans
    /\ threads'[i] # threads[i]
    /\ Len(threads[i].to_visit) > 0
    /\ Head(threads[i].to_visit)[1] \notin threads[i].visited
    /\ ~TooDeep(Head(threads[i].to_visit)[2])
    /\ IsSameDomain(Head(threads[i].to_visit)[1], threads[i].domain)

\* C27: when the fetch of a queued page fails (nothing is cached for it
\* afterwards), the crawl adds exactly one to error_count, writes no site map
\* entry, puts nothing on the queue, keeps the rest of the queue and stays in
\* its loop, and has the URL in visited, so that every later entry for it is
\* skipped without a fetch.
FailedFetchIsSkipped ==
    [][ \A i \in ThreadSlots :
          LET t == threads[i]
              url == Head(t.to_visit)[1]
          IN  /\ (FetchesHead(i) /\ url \notin content_cache')
                    => /\ threads'[i].error_count = t.error_count + 1
                       /\ site_maps' = site_maps
                       /\ threads'[i].to_visit = Tail(t.to_visit)
                       /\ threads'[i].log = t.log
                       /\ url \in threads'[i].visited
              /\ (t.running /\ threads'[i].running /\ orphans' = orphans)
                    => t.visited \subseteq threads'[i].visited
              /\ (t.running /\ threads'[i].running /\ orphans' = orphans
                  /\ threads'[i] # t /\ Len(t.to_visit) > 0 /\ url \in t.visited)
                    => /\ threads'[i].error_count = t.error_count
                       /\ content_cache' = content_cache
                       /\ site_maps' = site_maps ]_vars

\* A crawl has had a failed fetch, is still in its loop and has entries left
\* on its queue.
FailedFetchAndGoingOn ==
    \E i \in ThreadSlots :
        /\ threads[i].running
        /\ threads[i].error_count = 1
        /\ threads[i].domain \in DOMAIN site_maps
        /\ \E u \in threads[i].visited : u \notin content_cache
        /\ LoopCondition(threads[i])

\* C28: whenever a crawl of a domain is in progress on the extractor, it has a
\* site map for that domain, also when start_site_mapping was called for a
\* domain extract_sitemap has stored nothing for.
SiteMapExistsDuringCrawl ==
    \A i \in ThreadSlots :
        threads[i].running => threads[i].domain \in DOMAIN site_maps

(***************************************************************************)
(* Further properties of _process_agent_input, checked under SpecChat.     *)
(***************************************************************************)
\* C29: the "starting on a highly relevant page" instruction of the system
\* prompt and the "Started search from the most relevant page" line of the
\* response are given only when the agent starts at a URL other than the base
\* URL; when the domain check has put the base URL in place of the URL
\* proposed, neither is given.
RelevantStartIsReal ==
    (process.agent.relevant_prompt \/ process.note # NoUrl)
        => process.agent.url_to_use # process.agent.base_url

\* C30: the result is replaced by the security alert only when run_agent_task
\* returned its alert for a breach; the text the agent brings back cannot by
\* its content alone have the result withheld.
AlertOnlyOnBreach ==
    process.branch = "alert" => process.agent.result = SecurityAlertText

====
